---- MODULE Spec2Model ----
(***************************************************************************)
(* Model of the regex -> AST -> NFA -> DFA pipeline of src/main.py.        *)
(*                                                                         *)
(* A regex source is a sequence of one-character strings.  The cursor      *)
(* (RegexString), the recursive-descent parser (Reg*.from_buf), the NFA    *)
(* fragment algebra (NFA.concat, disjunct, zero_or_more, ...) and the      *)
(* translation Reg*.to_nfa are operators computed as the code computes     *)
(* them; NFA.to_dfa is unrolled into one action per loop step.             *)
(***************************************************************************)
EXTENDS Integers, Sequences, FiniteSets, TLC

(***************************************************************************)
(* Bounds.                                                                 *)
(***************************************************************************)
\* every string over Chars of at most this length is a source
MaxLen == 4
\* every sentence of the grammar of at most this length is a source
MaxReLen == 6
\* input words of the automata are checked up to this length
MaxWord == 3

\* the alphanumeric characters the model draws from (str.isalnum holds)
Alnum == {"a", "b"}
\* the characters a source is made of
Chars == Alnum \cup {"(", ")", "|", "*", "+"}

(***************************************************************************)
(* Small helpers.                                                          *)
(***************************************************************************)
Range(f) == {f[x] : x \in DOMAIN f}

Front(s) == SubSeq(s, 1, Len(s) - 1)

Last(s) == s[Len(s)]

SetMax(S) == CHOOSE x \in S : \A y \in S : y <= x

SetMin(S) == CHOOSE x \in S : \A y \in S : x <= y

\* all sequences over S of length at most n
SeqsUpTo(S, n) == UNION {[1..k -> S] : k \in 0..n}

(***************************************************************************)
(* The sentences of the grammar, by exact length:                          *)
(*   Disj := Concat ('|' Concat)* ; Concat := Quality+ ;                   *)
(*   Quality := Unity ('*'|'+')? ; Unity := Char | '(' Disj ')'.           *)
(***************************************************************************)
RECURSIVE UnityStr(_), QualityStr(_), ConcatStr(_), DisjStr(_)
UnityStr(n) ==
    IF n = 1 THEN {<<c>> : c \in Alnum}
    ELSE IF n >= 3 THEN {<<"(">> \o d \o <<")">> : d \in DisjStr(n - 2)}
    ELSE {}

QualityStr(n) ==
    UnityStr(n) \cup
    (IF n >= 2 THEN {u \o <<q>> : u \in UnityStr(n - 1), q \in {"*", "+"}}
     ELSE {})

ConcatStr(n) ==
    QualityStr(n) \cup
    UNION {{q \o c : q \in QualityStr(k), c \in ConcatStr(n - k)} : k \in 1..(n - 1)}

DisjStr(n) ==
    ConcatStr(n) \cup
    UNION {{c \o <<"|">> \o d : c \in ConcatStr(k), d \in DisjStr(n - k - 1)}
           : k \in 1..(n - 2)}

\* the sentences of the grammar of length at most MaxReLen
GrammarSources == UNION {DisjStr(n) : n \in 1..MaxReLen}

\* the sources the pipeline is run on
Sources == SeqsUpTo(Chars, MaxLen) \cup GrammarSources

(***************************************************************************)
(* RegexString: the cursor.  s is the source, i the 0-based position.      *)
(***************************************************************************)
is_eof(s, i) == i = Len(s)

\* s[i] of Python, with its negative indices
at(s, i) == IF i >= 0 THEN s[i + 1] ELSE s[Len(s) + i + 1]

\* returns the character and the new position
pop(s, i) ==
    IF is_eof(s, i) THEN [c |-> "", i |-> i]
    ELSE [c |-> at(s, i), i |-> i + 1]

peek(s, i) == IF is_eof(s, i) THEN "" ELSE at(s, i)

push_back(i) == i - 1

\* str.isalnum on the value pop returns ("" is not alphanumeric)
isalnum(c) == c \in Alnum

(***************************************************************************)
(* The parser.  Every from_buf returns                                     *)
(*   node   : the node built, or False ("no match")                        *)
(*   i      : the cursor position it leaves                                *)
(*   raised : TRUE when it raised ValueError("no closing ) for group")     *)
(*   log    : history of the from_buf calls that returned during it, each  *)
(*            [fn, at, end, matched]: who was called, the position at the  *)
(*            call, the position at the return, whether a node came back.  *)
(***************************************************************************)
False == [type |-> "False"]

truthy(node) == node.type # "False"

Ret(fn, i0, node, i1, sublog) ==
    [node |-> node, i |-> i1, raised |-> FALSE,
     log |-> sublog \o <<[fn |-> fn, at |-> i0, end |-> i1, matched |-> truthy(node)]>>]

Raise(i1, sublog) ==
    [node |-> False, i |-> i1, raised |-> TRUE, log |-> sublog]

RECURSIVE RegUnity_from_buf(_, _), RegGroup_from_buf(_, _), RegQuality_from_buf(_, _)
RECURSIVE RegConcat_from_buf(_, _), RegConcat_loop(_, _, _, _, _)
RECURSIVE RegDisj_from_buf(_, _), RegDisj_loop(_, _, _, _, _)

RegChar_from_buf(s, i) ==
    LET p == pop(s, i) IN
    IF isalnum(p.c)
    THEN Ret("Char", i, [type |-> "Char", child |-> p.c], p.i, <<>>)
    ELSE Ret("Char", i, False, push_back(p.i), <<>>)

RegGroup_from_buf(s, i) ==
    LET p == pop(s, i) IN
    IF p.c = "("
    THEN LET exp == RegDisj_from_buf(s, p.i) IN
         IF exp.raised THEN exp
         ELSE LET q == pop(s, exp.i) IN
              IF q.c # ")" THEN Raise(q.i, exp.log)
              ELSE Ret("Group", i, [type |-> "Group", child |-> exp.node], q.i, exp.log)
    ELSE Ret("Group", i, False, push_back(p.i), <<>>)

RegUnity_from_buf(s, i) ==
    IF peek(s, i) = "("
    THEN LET g == RegGroup_from_buf(s, i) IN
         IF g.raised THEN g
         ELSE Ret("Unity", i, [type |-> "Unity", child |-> g.node], g.i, g.log)
    ELSE LET c == RegChar_from_buf(s, i) IN
         IF truthy(c.node)
         THEN Ret("Unity", i, [type |-> "Unity", child |-> c.node], c.i, c.log)
         ELSE Ret("Unity", i, False, c.i, c.log)

RegQuality_from_buf(s, i) ==
    LET exp == RegUnity_from_buf(s, i) IN
    IF exp.raised THEN exp
    ELSE IF ~truthy(exp.node) THEN Ret("Quality", i, False, exp.i, exp.log)
    ELSE IF peek(s, exp.i) \in {"*", "+"}
         THEN LET q == pop(s, exp.i) IN
              Ret("Quality", i,
                  [type |-> "Quality", child |-> exp.node, qualifier |-> q.c],
                  q.i, exp.log)
         ELSE Ret("Quality", i,
                  [type |-> "Quality", child |-> exp.node, qualifier |-> ""],
                  exp.i, exp.log)

\* the while loop of RegConcat.from_buf: exp is the last Quality result
RegConcat_loop(s, i0, exps, exp, log) ==
    IF exp.raised THEN Raise(exp.i, log \o exp.log)
    ELSE IF truthy(exp.node)
    THEN RegConcat_loop(s, i0, Append(exps, exp.node),
                        RegQuality_from_buf(s, exp.i), log \o exp.log)
    ELSE IF Len(exps) > 0
    THEN Ret("Concat", i0, [type |-> "Concat", children |-> exps], exp.i, log \o exp.log)
    ELSE Ret("Concat", i0, False, exp.i, log \o exp.log)

RegConcat_from_buf(s, i) ==
    RegConcat_loop(s, i, <<>>, RegQuality_from_buf(s, i), <<>>)

\* the while loop of RegDisj.from_buf: exp is the last Concat result
RegDisj_loop(s, i0, exps, exp, log) ==
    IF exp.raised THEN Raise(exp.i, log \o exp.log)
    ELSE IF truthy(exp.node)
    THEN IF peek(s, exp.i) = "|"
         THEN RegDisj_loop(s, i0, Append(exps, exp.node),
                           RegConcat_from_buf(s, pop(s, exp.i).i), log \o exp.log)
         ELSE Ret("Disj", i0, [type |-> "Disj", children |-> Append(exps, exp.node)],
                  exp.i, log \o exp.log)
    ELSE IF Len(exps) > 0
    THEN Ret("Disj", i0, [type |-> "Disj", children |-> exps], exp.i, log \o exp.log)
    ELSE Ret("Disj", i0, False, exp.i, log \o exp.log)

RegDisj_from_buf(s, i) ==
    RegDisj_loop(s, i, <<>>, RegConcat_from_buf(s, i), <<>>)

\* RegexString(s).parse()
parse(s) == RegDisj_from_buf(s, 0)

(***************************************************************************)
(* FiniteAutomaton / NFA: a fragment is [transitions, start, term], with   *)
(* transitions the list of Transition(on, source, dest); on = "" is ε.     *)
(***************************************************************************)
Transition(on, source, dest) == [on |-> on, source |-> source, dest |-> dest]

NFA(transitions, start, term) ==
    [transitions |-> transitions, start |-> start, term |-> term]

max_node(fa) ==
    SetMax({IF t.source >= t.dest THEN t.source ELSE t.dest : t \in Range(fa.transitions)})

min_node(fa) ==
    SetMin({IF t.source <= t.dest THEN t.source ELSE t.dest : t \in Range(fa.transitions)})

\* deepcopy: fragments are values, the copy shares nothing with the original
copy(fa) == fa

add_offset(fa, offset) ==
    NFA([j \in DOMAIN fa.transitions |->
            Transition(fa.transitions[j].on,
                       fa.transitions[j].source + offset,
                       fa.transitions[j].dest + offset)],
        fa.start + offset, fa.term + offset)

\* renames the endpoints only: start and term are left alone
replace_node(fa, orig, new) ==
    NFA([j \in DOMAIN fa.transitions |->
            Transition(fa.transitions[j].on,
                       IF fa.transitions[j].source = orig THEN new
                       ELSE fa.transitions[j].source,
                       IF fa.transitions[j].dest = orig THEN new
                       ELSE fa.transitions[j].dest)],
        fa.start, fa.term)

prepend_new_start(fa) ==
    LET new_start == min_node(fa)
        shifted == add_offset(fa, 1)
    IN NFA(Append(shifted.transitions, Transition("", new_start, shifted.start)),
           new_start, shifted.term)

append_new_term(fa) ==
    LET new_term == max_node(fa) + 1
        old_term == fa.term
    IN NFA(Append(fa.transitions, Transition("", old_term, new_term)),
           fa.start, new_term)

from_char(char) == NFA(<<Transition(char, 0, 1)>>, 0, 1)

\* concat_offset always taking a fresh number
concat_offset_fresh(self) == max_node(self) + 1

\* the offset concat joins the right fragment at
concat_offset(self) ==
    IF max_node(self) # self.term THEN max_node(self) + 1 ELSE max_node(self)

concat(self, right) ==
    LET offset == concat_offset(self)
        right1 == replace_node(add_offset(right, offset), self.start, offset)
        self1 == replace_node(self, self.term, offset)
    IN NFA(self1.transitions \o right1.transitions, self1.start, right1.term)

disjunct(self, other) ==
    LET self1 == prepend_new_start(self)
        new_start == self1.start
        self2 == append_new_term(self1)
        new_term == self2.term
        offset == new_term + 1
        other1 == add_offset(other, offset)
    IN NFA(self2.transitions
             \o <<Transition("", new_start, other1.start),
                  Transition("", other1.term, new_term)>>
             \o other1.transitions,
           new_start, new_term)

\* zero_or_more without the new accept state
zero_or_more_same_term(self) ==
    NFA(self.transitions
          \o <<Transition("", self.start, self.term),
               Transition("", self.term, self.start)>>,
        self.start, self.term)

zero_or_more(self) ==
    append_new_term(
        NFA(self.transitions
              \o <<Transition("", self.start, self.term),
                   Transition("", self.term, self.start)>>,
            self.start, self.term))

(***************************************************************************)
(* Reg*.to_nfa.  The result is [raised, fa]: raised is TRUE when the call  *)
(* ends in AttributeError (to_nfa looked up on the value False).           *)
(***************************************************************************)
Built(fa) == [raised |-> FALSE, fa |-> fa]

AttributeError == [raised |-> TRUE, fa |-> NFA(<<>>, -1, -1)]

RECURSIVE RegUnity_to_nfa(_), RegGroup_to_nfa(_), RegQuality_to_nfa(_)
RECURSIVE RegConcat_to_nfa(_), RegConcat_fold(_, _), RegDisj_to_nfa(_), RegDisj_fold(_, _)

RegChar_to_nfa(node) == Built(from_char(node.child))

RegGroup_to_nfa(node) ==
    IF ~truthy(node.child) THEN AttributeError
    ELSE RegDisj_to_nfa(node.child)

RegUnity_to_nfa(node) ==
    IF node.child.type = "Group" THEN RegGroup_to_nfa(node.child)
    ELSE RegChar_to_nfa(node.child)

RegQuality_to_nfa(node) ==
    LET child_nfa == RegUnity_to_nfa(node.child) IN
    IF child_nfa.raised THEN child_nfa
    ELSE IF node.qualifier = "" THEN child_nfa
    ELSE IF node.qualifier = "*" THEN Built(zero_or_more(child_nfa.fa))
    ELSE LET rep_nfa == zero_or_more(copy(child_nfa.fa)) IN
         Built(concat(child_nfa.fa, rep_nfa))

\* the fragment of the first n children of a Concat, folded left to right
RegConcat_fold(children, n) ==
    IF n = 1 THEN RegQuality_to_nfa(children[1])
    ELSE LET nfa == RegConcat_fold(children, n - 1) IN
         IF nfa.raised THEN nfa
         ELSE LET child == RegQuality_to_nfa(children[n]) IN
              IF child.raised THEN child
              ELSE Built(concat(nfa.fa, child.fa))

RegConcat_to_nfa(node) == RegConcat_fold(node.children, Len(node.children))

\* the fragment of the first n children of a Disj, folded left to right
RegDisj_fold(children, n) ==
    IF n = 1 THEN RegConcat_to_nfa(children[1])
    ELSE LET nfa == RegDisj_fold(children, n - 1) IN
         IF nfa.raised THEN nfa
         ELSE LET child == RegConcat_to_nfa(children[n]) IN
              IF child.raised THEN child
              ELSE Built(disjunct(nfa.fa, child.fa))

RegDisj_to_nfa(node) == RegDisj_fold(node.children, Len(node.children))

(***************************************************************************)
(* NFA.to_dfa helpers.  nodes is a set here where the code only tests      *)
(* membership; lists whose order the code keeps are sequences.             *)
(***************************************************************************)
\* the rank str ordering gives the labels: "" sorts first
LabelOrder == <<"", "a", "b">>

RECURSIVE SortedLabels(_, _)
SortedLabels(S, k) ==
    IF k > Len(LabelOrder) THEN <<>>
    ELSE (IF LabelOrder[k] \in S THEN <<LabelOrder[k]>> ELSE <<>>)
         \o SortedLabels(S, k + 1)

\* the labels of the transitions from nodes in order, one per transition
RECURSIVE SortedLabelList(_, _, _)
SortedLabelList(fa, nodes, k) ==
    IF k > Len(LabelOrder) THEN <<>>
    ELSE SelectSeq([j \in DOMAIN fa.transitions |->
                       IF fa.transitions[j].on = LabelOrder[k]
                          /\ fa.transitions[j].source \in nodes
                       THEN LabelOrder[k] ELSE "-"],
                   LAMBDA l : l # "-")
         \o SortedLabelList(fa, nodes, k + 1)

\* get_moves_for_nodes without the set: one label per transition
get_moves_for_nodes_list(fa, nodes) == SortedLabelList(fa, nodes, 1)

\* sorted(list({t.on ...})): each label once, ascending
get_moves_for_nodes(fa, nodes) ==
    SortedLabels({t.on : t \in {u \in Range(fa.transitions) : u.source \in nodes}}, 1)

\* sorted(xs) for a list of ints, duplicates kept
RECURSIVE sorted(_)
sorted(xs) ==
    IF xs = <<>> THEN <<>>
    ELSE LET m == SetMin(Range(xs))
             k == CHOOSE j \in DOMAIN xs : xs[j] = m
         IN <<m>> \o sorted(SubSeq(xs, 1, k - 1) \o SubSeq(xs, k + 1, Len(xs)))

\* the dests of the transitions on `on` from nodes, one per transition, sorted
move_on(fa, nodes, on) ==
    sorted(SelectSeq([j \in DOMAIN fa.transitions |->
                         IF fa.transitions[j].on = on /\ fa.transitions[j].source \in nodes
                         THEN fa.transitions[j].dest ELSE -1],
                     LAMBDA d : d >= 0))

\* the orders in which iterating a set may list its elements
RECURSIVE Orders(_)
Orders(S) ==
    IF S = {} THEN {<<>>}
    ELSE UNION {{<<x>> \o o : o \in Orders(S \ {x})} : x \in S}

(***************************************************************************)
(* `fixed_point.extend(new_eps)` iterates a set from the second round on.  *)
(* The language leaves the order open; the interpreter fixes it.  The      *)
(* model takes it to be a function of the set's elements that is not known *)
(* in advance: orders holds the lists chosen so far, one per set, and a    *)
(* set met again is listed as before.                                      *)
(***************************************************************************)
\* the while loop of epsilon_closure: every [list, orders] it can end with
RECURSIVE epsilon_loop(_, _, _, _)
epsilon_loop(fa, fixed_point, new_eps, orders) ==
    IF new_eps = <<>> THEN {[list |-> fixed_point, orders |-> orders]}
    ELSE LET extended == fixed_point \o new_eps
             next_eps == Range(move_on(fa, Range(new_eps), "")) \ Range(extended)
             known == {o \in orders : Range(o) = next_eps}
         IN IF Cardinality(next_eps) <= 1 \/ known # {}
            THEN UNION {epsilon_loop(fa, extended, o, orders)
                        : o \in IF known # {} THEN known ELSE Orders(next_eps)}
            ELSE UNION {epsilon_loop(fa, extended, o, orders \cup {o})
                        : o \in Orders(next_eps)}

\* nodes is a list; the first round extends by the sorted list move_on returns
epsilon_closure(fa, nodes, orders) ==
    epsilon_loop(fa, nodes, move_on(fa, Range(nodes), ""), orders)

\* new_states.index(x): 0-based position of the first entry equal to x
index(xs, x) == (CHOOSE j \in DOMAIN xs : xs[j] = x /\ \A k \in 1..(j - 1) : xs[k] # x) - 1

DFA(transitions, start, term) ==
    [transitions |-> transitions, start |-> start, term |-> term]

(***************************************************************************)
(* The pipeline as a state machine (the driver's loop body, per source):   *)
(*   parsed = RegexString(s).parse(); nfa = parsed.to_nfa();               *)
(*   dfa = nfa.to_dfa()                                                    *)
(* pc is the position in it; to_dfa is unrolled: "while" is the test of    *)
(* the while loop, "for" the head of the for loop over the labels.         *)
(***************************************************************************)
VARIABLES src, pc, i, ast, calls, nfa, set_orders,
          new_states, new_transitions, new_term_states, queue,
          current_state, moves, dfa

vars == <<src, pc, i, ast, calls, nfa, set_orders,
          new_states, new_transitions, new_term_states, queue,
          current_state, moves, dfa>>

dfa_locals == <<new_states, new_transitions, new_term_states, queue,
                current_state, moves>>

Init ==
    /\ src \in Sources
    /\ pc = "start"
    /\ i = 0
    /\ ast = False
    /\ calls = <<>>
    /\ nfa = NFA(<<>>, -1, -1)
    /\ set_orders = {}
    /\ new_states = <<>>
    /\ new_transitions = <<>>
    /\ new_term_states = <<>>
    /\ queue = <<>>
    /\ current_state = <<>>
    /\ moves = <<>>
    /\ dfa = DFA(<<>>, -1, <<>>)

\* RegexString(s).parse(): an AST, False, or ValueError
Parse ==
    /\ pc = "start"
    /\ LET r == parse(src) IN
        /\ pc' = IF r.raised THEN "ValueError"
                 ELSE IF truthy(r.node) THEN "parsed" ELSE "nomatch"
        /\ ast' = r.node
        /\ i' = r.i
        /\ calls' = r.log
    /\ UNCHANGED <<src, nfa, set_orders, dfa>>
    /\ UNCHANGED dfa_locals

\* parsed.to_nfa() on the AST the parser returned
ToNfa ==
    /\ pc = "parsed"
    /\ LET r == RegDisj_to_nfa(ast) IN
        /\ pc' = IF r.raised THEN "AttributeError" ELSE "nfa"
        /\ nfa' = IF r.raised THEN nfa ELSE r.fa
    /\ UNCHANGED <<src, i, ast, calls, set_orders, dfa>>
    /\ UNCHANGED dfa_locals

\* to_dfa up to the while loop
ToDfaStart ==
    /\ pc = "nfa"
    /\ \E closure \in epsilon_closure(nfa, <<nfa.start>>, set_orders) :
        LET new_initial_state == closure.list IN
        /\ new_states' = <<new_initial_state>>
        /\ queue' = <<new_initial_state>>
        /\ set_orders' = closure.orders
    /\ new_transitions' = <<>>
    /\ new_term_states' = <<>>
    /\ pc' = "while"
    /\ UNCHANGED <<src, i, ast, calls, nfa, current_state, moves, dfa>>

\* while queue: current_state = queue.pop(), and the labels of the for loop
DfaPop ==
    /\ pc = "while"
    /\ Len(queue) > 0
    /\ current_state' = Last(queue)
    /\ queue' = Front(queue)
    /\ moves' = get_moves_for_nodes(nfa, Range(Last(queue)))
    /\ pc' = IF Len(moves') = 0 THEN "while" ELSE "for"
    /\ UNCHANGED <<src, i, ast, calls, nfa, set_orders, new_states,
                   new_transitions, new_term_states, dfa>>

\* whether the for loop skips the label
skip_label(on) == on = ""

\* one iteration of the for loop, on the next label
DfaOn ==
    /\ pc = "for"
    /\ LET current_on == Head(moves) IN
        IF skip_label(current_on)
        THEN UNCHANGED <<set_orders, new_states, new_transitions, new_term_states, queue>>
        ELSE \E closure \in
                    epsilon_closure(nfa, move_on(nfa, Range(current_state), current_on),
                                    set_orders) :
                LET possibly_new_state == closure.list
                    is_new == \A k \in DOMAIN new_states : new_states[k] # possibly_new_state
                    registry == IF is_new THEN Append(new_states, possibly_new_state)
                                ELSE new_states
                IN /\ set_orders' = closure.orders
                   /\ new_states' = registry
                   /\ queue' = IF is_new THEN Append(queue, possibly_new_state) ELSE queue
                   /\ new_term_states' =
                        IF is_new /\ nfa.term \in Range(possibly_new_state)
                        THEN Append(new_term_states, Len(registry) - 1)
                        ELSE new_term_states
                   /\ new_transitions' =
                        Append(new_transitions,
                               Transition(current_on,
                                          index(registry, current_state),
                                          index(registry, possibly_new_state)))
    /\ moves' = Tail(moves)
    /\ pc' = IF Len(moves') = 0 THEN "while" ELSE "for"
    /\ UNCHANGED <<src, i, ast, calls, nfa, current_state, dfa>>

\* the queue is empty: return DFA(new_transitions, 0, new_term_states)
DfaReturn ==
    /\ pc = "while"
    /\ Len(queue) = 0
    /\ dfa' = DFA(new_transitions, 0, new_term_states)
    /\ pc' = "done"
    /\ UNCHANGED <<src, i, ast, calls, nfa, set_orders>>
    /\ UNCHANGED dfa_locals

Next == Parse \/ ToNfa \/ ToDfaStart \/ DfaPop \/ DfaOn \/ DfaReturn

Spec == Init /\ [][Next]_vars

(***************************************************************************)
(* Vocabulary of the properties.                                           *)
(***************************************************************************)
\* the input words the automata are run on
Words == SeqsUpTo(Alnum, MaxWord)

\* the states of a fragment: the endpoints of its transitions
States(fa) ==
    {t.source : t \in Range(fa.transitions)} \cup {t.dest : t \in Range(fa.transitions)}

\* the least set containing S and closed under the ε-transitions of fa
RECURSIVE EpsReach(_, _)
EpsReach(fa, S) ==
    LET more == S \cup {t.dest : t \in {u \in Range(fa.transitions) : u.on = "" /\ u.source \in S}}
    IN IF more = S THEN S ELSE EpsReach(fa, more)

\* the states some path from S spelling w ends in
RECURSIVE NfaRun(_, _, _)
NfaRun(fa, S, w) ==
    IF w = <<>> THEN EpsReach(fa, S)
    ELSE NfaRun(fa,
                {t.dest : t \in {u \in Range(fa.transitions)
                                    : u.on = Head(w) /\ u.source \in EpsReach(fa, S)}},
                Tail(w))

\* some path from start to accept has non-ε labels spelling w
NfaAccepts(fa, w) == fa.term \in NfaRun(fa, {fa.start}, w)

\* the DFA run from q over w ends in a state of the accept list
RECURSIVE DfaRun(_, _, _)
DfaRun(d, q, w) ==
    IF w = <<>> THEN q \in Range(d.term)
    ELSE \E t \in Range(d.transitions) :
            t.source = q /\ t.on = Head(w) /\ DfaRun(d, t.dest, Tail(w))

DfaAccepts(d, w) == DfaRun(d, d.start, w)

\* the standard semantics of the AST: w belongs to the language of the node
RECURSIVE InUnity(_, _), InStar(_, _), InQuality(_, _), InConcat(_, _, _), InDisj(_, _)
InUnity(node, w) ==
    IF node.child.type = "Char" THEN w = <<node.child.child>>
    ELSE InDisj(node.child.child, w)

InStar(unity, w) ==
    \/ w = <<>>
    \/ \E k \in 1..Len(w) :
          InUnity(unity, SubSeq(w, 1, k)) /\ InStar(unity, SubSeq(w, k + 1, Len(w)))

InQuality(node, w) ==
    IF node.qualifier = "" THEN InUnity(node.child, w)
    ELSE IF node.qualifier = "*" THEN InStar(node.child, w)
    ELSE \E k \in 0..Len(w) :
            InUnity(node.child, SubSeq(w, 1, k)) /\ InStar(node.child, SubSeq(w, k + 1, Len(w)))

\* w is in the concatenation of the first n children
InConcat(children, n, w) ==
    IF n = 1 THEN InQuality(children[1], w)
    ELSE \E k \in 0..Len(w) :
            InConcat(children, n - 1, SubSeq(w, 1, k))
            /\ InQuality(children[n], SubSeq(w, k + 1, Len(w)))

InDisj(node, w) ==
    \E k \in DOMAIN node.children :
        InConcat(node.children[k].children, Len(node.children[k].children), w)

\* how often c occurs in s
Count(c, s) == Cardinality({k \in DOMAIN s : s[k] = c})

\* how far into the source the parser got for good: the furthest position a
\* from_buf was called at or returned a node at
Consumed(log) ==
    SetMax({0} \cup {log[k].at : k \in DOMAIN log}
               \cup {log[k].end : k \in {j \in DOMAIN log : log[j].matched}})

\* some Group of the AST carries False instead of a Disj
RECURSIVE HasFalseGroup(_)
HasFalseGroup(disj) ==
    \E k \in DOMAIN disj.children : \E j \in DOMAIN disj.children[k].children :
        LET unity == disj.children[k].children[j].child IN
        /\ unity.child.type = "Group"
        /\ (~truthy(unity.child.child) \/ HasFalseGroup(unity.child.child))

\* the integers of [min_node, max_node] that are no state of the fragment
Unused(fa) == (min_node(fa)..max_node(fa)) \ States(fa)

(***************************************************************************)
(* The concat applications to_nfa performs on a left fragment whose accept *)
(* is not its highest-numbered state, counted along the translation.       *)
(***************************************************************************)
LeftAcceptNotMax(fa) == IF max_node(fa) # fa.term THEN 1 ELSE 0

RECURSIVE FreshJoinsUnity(_), FreshJoinsQuality(_), FreshJoinsConcat(_, _), FreshJoinsDisj(_, _)
FreshJoinsUnity(node) ==
    IF node.child.type = "Char" THEN 0
    ELSE FreshJoinsDisj(node.child.child.children, Len(node.child.child.children))

FreshJoinsQuality(node) ==
    IF node.qualifier = "+"
    THEN 2 * FreshJoinsUnity(node.child) + LeftAcceptNotMax(RegUnity_to_nfa(node.child).fa)
    ELSE FreshJoinsUnity(node.child)

FreshJoinsConcat(children, n) ==
    IF n = 1 THEN FreshJoinsQuality(children[1])
    ELSE FreshJoinsConcat(children, n - 1) + FreshJoinsQuality(children[n])
         + LeftAcceptNotMax(RegConcat_fold(children, n - 1).fa)

FreshJoinsDisj(children, n) ==
    IF n = 0 THEN 0
    ELSE FreshJoinsDisj(children, n - 1)
         + FreshJoinsConcat(children[n].children, Len(children[n].children))

(***************************************************************************)
(* Properties.                                                             *)
(***************************************************************************)

\* C1: for every sentence of the grammar, the NFA to_nfa returns accepts a
\* word exactly when the word is in the language of the regex (literal,
\* concatenation, union, zero or more, one or more).
NfaAcceptsRegexLanguage ==
    (pc = "nfa" /\ src \in GrammarSources) =>
        \A w \in Words : NfaAccepts(nfa, w) <=> InDisj(ast, w)

\* C2: the DFA to_dfa returns accepts a word, the empty word included,
\* exactly when the NFA accepts it.
DfaEquivalentToNfa ==
    pc = "done" => \A w \in Words : DfaAccepts(dfa, w) <=> NfaAccepts(nfa, w)

\* C3: no two entries of the registry of discovered subsets hold the same
\* NFA states, whatever the order and multiplicity they are listed in.
SubsetsDistinct ==
    \A j \in DOMAIN new_states : \A k \in DOMAIN new_states :
        j # k => Range(new_states[j]) # Range(new_states[k])

\* the transition list ts has at most one (q, a, _) per q and a, and no ε label
Deterministic(ts) ==
    /\ \A j \in DOMAIN ts : \A k \in DOMAIN ts :
          (j # k /\ ts[j].source = ts[k].source) => ts[j].on # ts[k].on
    /\ \A j \in DOMAIN ts : ts[j].on # ""

\* C4: the DFA is deterministic, while it is built and when it is returned:
\* at most one transition per state and label, and none on ε.
DfaDeterministic ==
    /\ Deterministic(new_transitions)
    /\ pc = "done" => Deterministic(dfa.transitions)

\* C4 witness: a DFA was returned for an NFA with ε-transitions in which one
\* subset holds two different NFA states that both move on the same label,
\* and some DFA state has transitions on two labels.
DfaDeterministicWitness ==
    /\ pc = "done"
    /\ \E t \in Range(nfa.transitions) : t.on = ""
    /\ \E k \in DOMAIN new_states : \E t \in Range(nfa.transitions) :
          \E u \in Range(nfa.transitions) :
             /\ t.source # u.source /\ t.on = u.on /\ t.on # ""
             /\ {t.source, u.source} \subseteq Range(new_states[k])
    /\ \E t \in Range(dfa.transitions) : \E u \in Range(dfa.transitions) :
          t.source = u.source /\ t.on # u.on

\* C5: every from_buf call that reports no match leaves the cursor where it
\* was at the call, and no call leaves it below 0.
NoMatchRestoresCursor ==
    \A k \in DOMAIN calls :
        /\ ~calls[k].matched => calls[k].end = calls[k].at
        /\ calls[k].end >= 0

\* C6: a source with more "(" than ")" never yields an AST.
UnclosedGroupRaises ==
    pc = "parsed" => Count("(", src) <= Count(")", src)

\* C7: parse returns an AST only when the whole source was consumed;
\* a source with unconsumed input (such as "a)") yields no AST.
TrailingInputRejected ==
    pc = "parsed" => Consumed(calls) = Len(src)

\* C8: every Group of a returned AST carries a parsed Disj, and to_nfa never
\* fails on a returned AST.
GroupCarriesDisj ==
    /\ pc = "parsed" => ~HasFalseGroup(ast)
    /\ pc # "AttributeError"

\* C9: the fragment to_nfa returns has start # accept, both are endpoints of
\* transitions, and the accept state has no outgoing transition.
FragmentShape ==
    pc = "nfa" =>
        /\ nfa.start # nfa.term
        /\ nfa.start \in States(nfa)
        /\ nfa.term \in States(nfa)
        /\ \A t \in Range(nfa.transitions) : t.source # nfa.term

\* C9 witness: a fragment built with disjunct, concat, zero_or_more and the
\* copy used for "+".
FragmentShapeWitness ==
    /\ pc = "nfa"
    /\ Len(ast.children) >= 2
    /\ \E k \in DOMAIN ast.children : Len(ast.children[k].children) >= 2
    /\ {"*", "+"} \subseteq Range(src)
    /\ Len(nfa.transitions) >= 8

====
